---- MODULE Spec2Model ----
(***************************************************************************)
(* Model of timdrysdale/pocket-vna-two-port:                               *)
(*   pkg/pocket   - the Device Actor VNA.Run and its command dispatcher,   *)
(*   pkg/rfswitch - Switch.SetPort and the two transport pipes.            *)
(*                                                                         *)
(* Go channels are modelled as FIFO sequences bounded by their capacity.   *)
(* A select whose cases cannot proceed parks the goroutine; the first      *)
(* event on one of its channels (a send, a close) wakes it and fixes the   *)
(* case it runs.  A select that finds several cases ready picks any one.   *)
(*                                                                         *)
(* Specifications:                                                         *)
(*   Spec        - VNA.Run with callers that send well-formed commands,    *)
(*   SweepSpec   - VNA.Run with RangeQuery commands of any point count,    *)
(*   SwitchSpec  - SetPort and the two pipes, messages arriving unasked,   *)
(*   ReplySpec   - SwitchSpec with a switch that answers the commands,     *)
(*   OutPipeSpec - PipeInterfaceToWs with every writer of Request,         *)
(*   DecodeSpec  - decode, LinSpec - LinFrequency, called on their own.    *)
(***************************************************************************)
EXTENDS Integers, Sequences, FiniteSets, TLC

VARIABLES
    (* ---- pkg/pocket: Device Actor ---- *)
    vpc,          \* position of the goroutine running VNA.Run
    handle,       \* v.handle: "nil" or the device handle
    command,      \* buffer of the request channel
    result,       \* buffer of the response channel
    cur,          \* cmd received at line 78
    res,          \* value about to be sent on the response channel
    cancelled,    \* ctx.Done() is closed
    blocked,      \* the command of a caller whose send is blocked
    submitted,    \* history: commands accepted by the request channel
    taken,        \* history: commands received by the actor
    emitted,      \* history: values written to the response channel
    nRead,        \* history: number of values read from the response channel
    nConnect,     \* history: calls of getFirstDeviceHandle
    nDisconnect,  \* history: calls of releaseHandle
    nHw,          \* history: hardware queries made by HandleCommand
    connectFailed,\* history: v.Connect() returned an error
    cancelPc      \* history: what the actor was doing when ctx was cancelled

vnaVars == <<vpc, handle, command, result, cur, res, cancelled, blocked,
             submitted, taken, emitted, nRead, nConnect, nDisconnect, nHw,
             connectFailed, cancelPc>>

VARIABLES
    (* ---- pkg/rfswitch: SetPort and the transport pipes ---- *)
    spc,          \* position of the caller inside Switch.SetPort
    port,         \* the argument of the call in progress
    iter,         \* the loop counter i of SetPort
    ret,          \* the error value the last call returned
    rx,           \* history: responses the call in progress has consumed
    nCalls,       \* history: calls of SetPort made
    opc,          \* position of PipeInterfaceToWs
    opay,         \* the frame PipeInterfaceToWs is about to send on r.Out
    wsOut,        \* history: frames the transport took from r.Out
    ipc,          \* position of PipeWsToInterface
    irep,         \* the report PipeWsToInterface is about to send
    nMsgs,        \* history: messages PipeWsToInterface received
    nBlank,       \* history: other values written to the Response channel
    swCancelled,  \* ctx.Done() of the switch is closed
    nSent,        \* history: commands the call in progress has sent
    myCmd,        \* history: position in wsOut of the command of the call
    matchOf,      \* history: origin of the report the call matched
    nOutIn,       \* history: values PipeInterfaceToWs received
    nBadIn,       \* history: of these, values json.Marshal rejected
    iraw,         \* the message PipeWsToInterface received last
    irawOf,       \* history: origin of that message
    nReplied      \* history: frames of wsOut the switch has answered

\* the history variables of the call in progress
callHist == <<nSent, myCmd, matchOf, nBlank>>

\* the history variables of PipeInterfaceToWs
outHist == <<nOutIn, nBadIn>>

\* the history variables of PipeWsToInterface and of the switch behind it
inHist == <<iraw, irawOf, nReplied>>

swVars == <<spc, port, iter, ret, rx, nCalls, opc, opay, wsOut, ipc, irep,
            nMsgs, swCancelled, callHist, outHist, inHist>>

VARIABLES
    (* ---- pkg/pocket: decode and LinFrequency, called on their own ---- *)
    dTable,       \* the message table Results
    dCode,        \* the argument of the last call of decode
    dOut,         \* what the last call of decode returned
    lStart,       \* the arguments of LinFrequency
    lEnd,
    lSize,
    lOut          \* what LinFrequency returned (empty before the call)

fnVars == <<dTable, dCode, dOut, lStart, lEnd, lSize, lOut>>

vars == <<vnaVars, swVars, fnVars>>

(* ------------------------------- bounds -------------------------------- *)

\* number of commands the callers submit in one run
MaxCmds == 4

\* number of SetPort calls in one run
MaxCalls == 2

\* number of messages that arrive on r.In in one run
MaxMsgs == 5

\* number of values that are no Report written to the Response channel
MaxBlanks == 1

\* number of values json.Marshal rejects written to the Request channel
MaxBad == 1

\* number of RangeQuery commands of any size submitted in one run
MaxSweeps == 2

\* length of the longest message table decode is called with
MaxTable == 12

\* the highest frequency LinFrequency is called with
MaxFreq == 8

\* the highest point count LinFrequency is called with
MaxPoints == 6

(* --------------------------- pkg/pocket values ------------------------- *)

\* make(chan interface{}, 2) for request and response
ChanCap == 2

\* S11 := [512]C.PVNA_Sparam{} (and S12, S21, S22)
BufCap == 512

\* the values of RangeQuery.Size: in range (2 and 512) and out of range
SweepSizes == {0, 1, 2, BufCap, BufCap + 1}

None == [type |-> "none"]

CmdTypes == {"ReasonableFrequencyRange", "RangeQuery", "SingleQuery", "Other"}

KnownTypes == {"ReasonableFrequencyRange", "RangeQuery", "SingleQuery"}

\* status codes the native library returns here: Ok and the sentinel
HwCodes == {0, 255}

\* the message table of types.go, indexed by status code (0-based in Go)
Results == <<"Ok", "No device", "No memory", "Other">>

Nil == "<nil>"

\* the run-time panic of an index expression out of range
PanicIndex == "panic: index out of range"

\* mutant: the code 255 is looked up like any other code
decodeWith_NoSentinel(table, code) ==
    IF code = 0 THEN Nil
    ELSE IF code + 1 \in DOMAIN table THEN table[code + 1]
    ELSE PanicIndex

\* lines 329-343, with the table Results as a parameter; Results[code] of
\* Go, which counts from 0, is table[code + 1]
decodeWith(table, code) ==
    IF code = 0 THEN Nil
    ELSE IF code = 255 THEN table[Len(table)]
    ELSE IF code + 1 \in DOMAIN table THEN table[code + 1]
    ELSE PanicIndex

decode(code) == decodeWith(Results, code)

CustomResult(msg, cmd) == [type |-> "CustomResult", Message |-> msg, Command |-> cmd]

\* the typed result: the command echoed with its Result populated
TypedResult(cmd) == [type |-> cmd.type, Message |-> "", Command |-> cmd]

\* mutant: the result for an unknown command does not carry the command
HandleCommand_NoEcho(cmd, code) ==
    IF cmd.type \in KnownTypes
    THEN IF decode(code) # Nil
         THEN CustomResult(decode(code), None)
         ELSE TypedResult(cmd)
    ELSE CustomResult("Unknown Command", None)

\* lines 425-436 of rangeQuery: the loop reads S11[i] for every i < size;
\* the arrays hold 512 entries, so a larger size ends in the run-time panic
\* "index out of range" (after the library has written size entries into
\* them), which ends the process
Panics(cmd) == cmd.type = "RangeQuery" /\ cmd.Size > BufCap

HandleCommand(cmd, code) ==
    IF cmd.type \in KnownTypes
    THEN IF decode(code) # Nil
         THEN CustomResult(decode(code), None)
         ELSE TypedResult(cmd)
    ELSE CustomResult("Unknown Command", cmd)

\* mutant: the receive hands out the newest buffered value
RecvCommand_Newest(q) == [val |-> q[Len(q)], rest |-> SubSeq(q, 1, Len(q) - 1)]

\* cmd := <-command on a buffered channel: the oldest buffered value
RecvCommand(q) == [val |-> Head(q), rest |-> Tail(q)]

\* result <- x can proceed
CanSendResult == Len(result) < ChanCap

\* mutant: the request channel made without a buffer
CanSendCommand_Unbuffered == vpc = "parked"

\* s.Request <- cmd can proceed: a parked receiver or room in the buffer
CanSendCommand == vpc = "parked" \/ Len(command) < ChanCap

(* -------------------------------- Init --------------------------------- *)

InitVNA ==
    /\ vpc = "connect"
    /\ handle = "nil"
    /\ command = <<>>
    /\ result = <<>>
    /\ cur = None
    /\ res = None
    /\ cancelled = FALSE
    /\ blocked = None
    /\ submitted = <<>>
    /\ taken = <<>>
    /\ emitted = <<>>
    /\ nRead = 0
    /\ nConnect = 0
    /\ nDisconnect = 0
    /\ nHw = 0
    /\ connectFailed = FALSE
    /\ cancelPc = "none"

InitSwitch ==
    /\ spc = "idle"
    /\ port = ""
    /\ iter = 0
    /\ ret = "none"
    /\ rx = <<>>
    /\ nCalls = 0
    /\ opc = "select"
    /\ opay = None
    /\ wsOut = <<>>
    /\ ipc = "select"
    /\ irep = None
    /\ nMsgs = 0
    /\ swCancelled = FALSE
    /\ nSent = 0
    /\ myCmd = 0
    /\ matchOf = 0
    /\ nBlank = 0
    /\ nOutIn = 0
    /\ nBadIn = 0
    /\ iraw = None
    /\ irawOf = 0
    /\ nReplied = 0

NoCode == 0 - 1

InitFn ==
    /\ dTable = Results
    /\ dCode = NoCode
    /\ dOut = "none"
    /\ lStart = 0
    /\ lEnd = 0
    /\ lSize = 0
    /\ lOut = <<>>

Init == InitVNA /\ InitSwitch /\ InitFn

(* ------------------------- Device Actor: VNA.Run ----------------------- *)

history == <<submitted, taken, emitted, nRead, nConnect, nDisconnect, nHw, connectFailed, cancelPc>>

\* line 68: err := v.Connect()
Connect ==
    /\ vpc = "connect"
    /\ \E code \in HwCodes :
        /\ nConnect' = nConnect + 1
        /\ IF decode(code) # Nil
           THEN /\ connectFailed' = TRUE
                /\ res' = CustomResult(decode(code), None)
                /\ vpc' = "connectErr"
                /\ UNCHANGED handle
           ELSE /\ handle' = "h"
                /\ vpc' = "select"
                /\ UNCHANGED <<connectFailed, res>>
    /\ UNCHANGED <<command, result, cur, cancelled, blocked, submitted, taken,
                   emitted, nRead, nDisconnect, nHw, cancelPc>>

\* mutant: the return after the connect error is missing
EmitConnectErr_NoReturn ==
    /\ vpc = "connectErr"
    /\ Len(result) < ChanCap
    /\ result' = Append(result, res)
    /\ emitted' = Append(emitted, [res |-> res, of |-> 0])
    /\ res' = None
    /\ vpc' = "select"
    /\ UNCHANGED <<handle, command, cur, cancelled, blocked, submitted, taken,
                   nRead, nConnect, nDisconnect, nHw, connectFailed, cancelPc>>

\* lines 71-72: result <- CustomResult{...}; return
EmitConnectErr ==
    /\ vpc = "connectErr"
    /\ CanSendResult
    /\ result' = Append(result, res)
    /\ emitted' = Append(emitted, [res |-> res, of |-> 0])
    /\ res' = None
    /\ vpc' = "done"
    /\ UNCHANGED <<handle, command, cur, cancelled, blocked, submitted, taken,
                   nRead, nConnect, nDisconnect, nHw, connectFailed, cancelPc>>

\* line 78: the select takes the case cmd := <-command; a sender blocked on
\* the full channel puts its value at the tail and resumes
TakeCommand ==
    /\ vpc = "select"
    /\ command # <<>>
    /\ cur' = RecvCommand(command).val
    /\ taken' = Append(taken, RecvCommand(command).val)
    /\ IF blocked # None
       THEN /\ command' = Append(RecvCommand(command).rest, blocked)
            /\ submitted' = Append(submitted, blocked)
            /\ blocked' = None
       ELSE /\ command' = RecvCommand(command).rest
            /\ UNCHANGED <<submitted, blocked>>
    /\ vpc' = "handle"
    /\ UNCHANGED <<handle, result, res, cancelled, emitted, nRead, nConnect,
                   nDisconnect, nHw, connectFailed, cancelPc>>

\* line 82: the select takes the case <-ctx.Done()
TakeDone ==
    /\ vpc = "select"
    /\ cancelled
    /\ vpc' = "disconnect"
    /\ UNCHANGED <<handle, command, result, cur, res, cancelled, blocked, history>>

\* line 76: no case can proceed, the goroutine parks on both channels
Park ==
    /\ vpc = "select"
    /\ command = <<>>
    /\ ~cancelled
    /\ vpc' = "parked"
    /\ UNCHANGED <<handle, command, result, cur, res, cancelled, blocked, history>>

\* mutant: the hardware call gives up when the context is cancelled
Handle_Preemptible ==
    /\ vpc = "handle"
    /\ IF cancelled
       THEN /\ vpc' = "disconnect"
            /\ cur' = None
            /\ UNCHANGED <<res, nHw>>
       ELSE /\ \E code \in HwCodes :
                res' = HandleCommand(cur, code)
            /\ nHw' = IF cur.type \in KnownTypes THEN nHw + 1 ELSE nHw
            /\ vpc' = "emit"
            /\ UNCHANGED cur
    /\ UNCHANGED <<handle, command, result, cancelled, blocked, submitted,
                   taken, emitted, nRead, nConnect, nDisconnect, connectFailed, cancelPc>>

\* line 80: v.HandleCommand(cmd), the synchronous hardware call
Handle ==
    /\ vpc = "handle"
    /\ IF Panics(cur)
       THEN /\ vpc' = "panic"
            /\ UNCHANGED res
       ELSE /\ \E code \in HwCodes :
                res' = HandleCommand(cur, code)
            /\ vpc' = "emit"
    /\ nHw' = IF cur.type \in KnownTypes THEN nHw + 1 ELSE nHw
    /\ UNCHANGED <<handle, command, result, cur, cancelled, blocked, submitted,
                   taken, emitted, nRead, nConnect, nDisconnect, connectFailed, cancelPc>>

\* line 80: result <- (the value HandleCommand returned)
Emit ==
    /\ vpc = "emit"
    /\ CanSendResult
    /\ result' = Append(result, res)
    /\ emitted' = Append(emitted, [res |-> res, of |-> Len(taken)])
    /\ res' = None
    /\ cur' = None
    /\ vpc' = "select"
    /\ UNCHANGED <<handle, command, cancelled, blocked, submitted, taken, nRead,
                   nConnect, nDisconnect, nHw, connectFailed, cancelPc>>

\* mutant: a break out of the select in place of the return
Disconnect_NoReturn ==
    /\ vpc = "disconnect"
    /\ \E code \in HwCodes :
        /\ nDisconnect' = nDisconnect + 1
        /\ IF decode(code) # Nil
           THEN /\ res' = CustomResult(decode(code), None)
                /\ vpc' = "disconnectErr"
           ELSE /\ vpc' = "select"
                /\ UNCHANGED res
    /\ UNCHANGED <<handle, command, result, cur, cancelled, blocked, submitted,
                   taken, emitted, nRead, nConnect, nHw, connectFailed, cancelPc>>

\* lines 83-87: err := v.Disconnect()
Disconnect ==
    /\ vpc = "disconnect"
    /\ \E code \in HwCodes :
        /\ nDisconnect' = nDisconnect + 1
        /\ IF decode(code) # Nil
           THEN /\ res' = CustomResult(decode(code), None)
                /\ vpc' = "disconnectErr"
           ELSE /\ vpc' = "done"
                /\ UNCHANGED res
    /\ UNCHANGED <<handle, command, result, cur, cancelled, blocked, submitted,
                   taken, emitted, nRead, nConnect, nHw, connectFailed, cancelPc>>

\* mutant: the return after the disconnect error is missing
EmitDisconnectErr_NoReturn ==
    /\ vpc = "disconnectErr"
    /\ Len(result) < ChanCap
    /\ result' = Append(result, res)
    /\ emitted' = Append(emitted, [res |-> res, of |-> 0])
    /\ res' = None
    /\ vpc' = "select"
    /\ UNCHANGED <<handle, command, cur, cancelled, blocked, submitted, taken,
                   nRead, nConnect, nDisconnect, nHw, connectFailed, cancelPc>>

\* lines 85-87: result <- CustomResult{...}; return
EmitDisconnectErr ==
    /\ vpc = "disconnectErr"
    /\ CanSendResult
    /\ result' = Append(result, res)
    /\ emitted' = Append(emitted, [res |-> res, of |-> 0])
    /\ res' = None
    /\ vpc' = "done"
    /\ UNCHANGED <<handle, command, cur, cancelled, blocked, submitted, taken,
                   nRead, nConnect, nDisconnect, nHw, connectFailed, cancelPc>>

(* ------------------------- the actor's environment --------------------- *)

\* a caller executes s.Request <- cmd: the value goes to the parked actor,
\* or into the buffer, or the caller blocks on the full channel
SendCommand(c) ==
    /\ blocked = None
    /\ IF CanSendCommand
       THEN /\ submitted' = Append(submitted, c)
            /\ IF vpc = "parked"
               THEN /\ cur' = c
                    /\ taken' = Append(taken, c)
                    /\ vpc' = "handle"
                    /\ UNCHANGED command
               ELSE /\ command' = Append(command, c)
                    /\ UNCHANGED <<cur, taken, vpc>>
            /\ UNCHANGED blocked
       ELSE /\ blocked' = c
            /\ UNCHANGED <<submitted, command, cur, taken, vpc>>
    /\ UNCHANGED <<handle, result, res, cancelled, emitted, nRead, nConnect,
                   nDisconnect, nHw, connectFailed, cancelPc>>

\* a caller sends a command of one of the types, a RangeQuery with a
\* point count in range
Submit ==
    /\ Len(submitted) < MaxCmds
    /\ \E t \in CmdTypes :
        SendCommand([type |-> t, id |-> Len(submitted) + 1,
                     Size |-> IF t = "RangeQuery" THEN 2 ELSE 0])

\* a caller sends a RangeQuery with any point count
SubmitSweep ==
    /\ Len(submitted) < MaxSweeps
    /\ \E n \in SweepSizes :
        SendCommand([type |-> "RangeQuery", id |-> Len(submitted) + 1, Size |-> n])

\* a reader executes <-s.Response
ReadResult ==
    /\ result # <<>>
    /\ result' = Tail(result)
    /\ nRead' = nRead + 1
    /\ UNCHANGED <<vpc, handle, command, cur, res, cancelled, blocked, submitted,
                   taken, emitted, nConnect, nDisconnect, nHw, connectFailed, cancelPc>>

\* the context is cancelled: ctx.Done() is closed; a parked actor wakes on it
Cancel ==
    /\ ~cancelled
    /\ cancelled' = TRUE
    /\ vpc' = IF vpc = "parked" THEN "disconnect" ELSE vpc
    /\ cancelPc' = IF vpc = "parked" THEN "idle"
                   ELSE IF vpc \in {"handle", "emit"} THEN "busy"
                   ELSE "other"
    /\ UNCHANGED <<handle, command, result, cur, res, blocked, submitted, taken,
                   emitted, nRead, nConnect, nDisconnect, nHw, connectFailed>>

Next ==
    \/ Connect /\ UNCHANGED <<swVars, fnVars>>
    \/ EmitConnectErr /\ UNCHANGED <<swVars, fnVars>>
    \/ TakeCommand /\ UNCHANGED <<swVars, fnVars>>
    \/ TakeDone /\ UNCHANGED <<swVars, fnVars>>
    \/ Park /\ UNCHANGED <<swVars, fnVars>>
    \/ Handle /\ UNCHANGED <<swVars, fnVars>>
    \/ Emit /\ UNCHANGED <<swVars, fnVars>>
    \/ Disconnect /\ UNCHANGED <<swVars, fnVars>>
    \/ EmitDisconnectErr /\ UNCHANGED <<swVars, fnVars>>
    \/ Submit /\ UNCHANGED <<swVars, fnVars>>
    \/ ReadResult /\ UNCHANGED <<swVars, fnVars>>
    \/ Cancel /\ UNCHANGED <<swVars, fnVars>>

Spec == Init /\ [][Next]_vars

\* the process runs: no goroutine has panicked
Alive == vpc # "panic"

\* the Device Actor with callers that send RangeQuery commands of any size
SweepNext ==
    \/ Alive /\ Connect /\ UNCHANGED <<swVars, fnVars>>
    \/ Alive /\ EmitConnectErr /\ UNCHANGED <<swVars, fnVars>>
    \/ Alive /\ TakeCommand /\ UNCHANGED <<swVars, fnVars>>
    \/ Alive /\ TakeDone /\ UNCHANGED <<swVars, fnVars>>
    \/ Alive /\ Park /\ UNCHANGED <<swVars, fnVars>>
    \/ Alive /\ Handle /\ UNCHANGED <<swVars, fnVars>>
    \/ Alive /\ Emit /\ UNCHANGED <<swVars, fnVars>>
    \/ Alive /\ Disconnect /\ UNCHANGED <<swVars, fnVars>>
    \/ Alive /\ EmitDisconnectErr /\ UNCHANGED <<swVars, fnVars>>
    \/ Alive /\ SubmitSweep /\ UNCHANGED <<swVars, fnVars>>
    \/ Alive /\ ReadResult /\ UNCHANGED <<swVars, fnVars>>
    \/ Alive /\ Cancel /\ UNCHANGED <<swVars, fnVars>>

SweepSpec == Init /\ [][SweepNext]_vars

(* ------------------------- pkg/rfswitch values ------------------------- *)

\* the arguments SetShort, SetOpen, SetLoad and SetDUT pass to SetPort
Ports == {"open", "dut"}

\* mutant: the loop makes one receive cycle more
MaxTries_Six == 5 + 1

\* for i := 0; i < 5; i++
MaxTries == 5

Report(kind, is) == [type |-> "Report", Report |-> kind, Is |-> is]

\* var r Report
ZeroReport == Report("", "")

\* a value on the Response channel that is not a Report
Blank == [type |-> "blank"]

\* Command{Set: "port", To: port}
Command(p) == [type |-> "Command", Set |-> "port", To |-> p]

\* the texts the transport delivers on r.In
RawMsgs ==
    { [json |-> TRUE, report |-> "port", is |-> p] : p \in Ports }
    \cup { [json |-> TRUE, report |-> "error", is |-> "bad state"],
           [json |-> FALSE, report |-> "port", is |-> "dut"] }

\* json.Unmarshal(msg.Data, &r): a text that does not parse leaves r zero
Unmarshal(raw) ==
    IF raw.json THEN Report(raw.report, raw.is) ELSE ZeroReport

\* a value written to the exported Request channel that json.Marshal
\* rejects (a channel, a func)
Unserializable == [type |-> "chan"]

\* payload, err := json.Marshal(s) returned an error: payload is nil
NoPayload == ""

\* lines 116-122: json.Marshal(s), then the frame built from the payload;
\* a failure of json.Marshal is logged and the frame is built all the same
Marshal(c) ==
    IF c.type = "Command"
    THEN [Data |-> "{set:" \o c.Set \o ",to:" \o c.To \o "}", Type |-> "TextMessage"]
    ELSE [Data |-> NoPayload, Type |-> "TextMessage"]

ErrSendTimeout == "timeout sending request"

ErrRecvTimeout == "timeout receiving response"

ErrTooMany == "Too many Unexpected responses"

\* mutant: the error is built without the payload of the report
ErrDevice_NoPayload(r) == "Error"

\* errors.New("Error" + r.Is)
ErrDevice(r) == "Error" \o r.Is

\* mutant: a report for another port is treated as a failure of the switch
Classify_Strict(m, p) ==
    IF m.type = "Report"
    THEN IF m.Report = "port" /\ m.Is = p THEN "match" ELSE "error"
    ELSE "ignore"

\* mutant: a port report is taken as the answer whatever port it tells
Classify_AnyPort(m, p) ==
    IF m.type = "Report"
    THEN IF m.Report = "error" THEN "error"
         ELSE IF m.Report = "port" THEN "match"
         ELSE "ignore"
    ELSE "ignore"

\* lines 74-93: what SetPort does with one response
Classify(m, p) ==
    IF m.type = "Report"
    THEN IF m.Report = "error" THEN "error"
         ELSE IF m.Report = "port" /\ m.Is = p THEN "match"
         ELSE "ignore"
    ELSE "ignore"

(* --------------------------- Switch.SetPort ---------------------------- *)

\* a caller calls SetPort(p); calls are made one after the other
Call ==
    /\ spc \in {"idle", "done"}
    /\ nCalls < MaxCalls
    /\ \E p \in Ports : port' = p
    /\ spc' = "send"
    /\ iter' = 0
    /\ ret' = "none"
    /\ rx' = <<>>
    /\ nCalls' = nCalls + 1
    /\ nSent' = 0
    /\ myCmd' = 0
    /\ matchOf' = 0
    /\ UNCHANGED nBlank
    /\ UNCHANGED <<opc, opay, wsOut, ipc, irep, nMsgs, swCancelled, outHist, inHist>>

\* line 63: s.Request <- request, received by PipeInterfaceToWs (line 114),
\* which marshals the value (line 116)
SendRequest ==
    /\ spc = "send"
    /\ opc = "select"
    /\ opay' = Marshal(Command(port))
    /\ opc' = "forward"
    /\ spc' = "recv"
    /\ nSent' = nSent + 1
    /\ myCmd' = Len(wsOut) + 1
    /\ nOutIn' = nOutIn + 1
    /\ UNCHANGED <<port, iter, ret, rx, nCalls, wsOut, ipc, irep, nMsgs, swCancelled,
                   matchOf, nBlank, nBadIn, inHist>>

\* another writer of the exported Request channel sends a value that
\* json.Marshal rejects; PipeInterfaceToWs receives it (lines 114-116)
RequestOther ==
    /\ opc = "select"
    /\ nBadIn < MaxBad
    /\ opay' = Marshal(Unserializable)
    /\ opc' = "forward"
    /\ nOutIn' = nOutIn + 1
    /\ nBadIn' = nBadIn + 1
    /\ UNCHANGED <<spc, port, iter, ret, rx, nCalls, wsOut, ipc, irep, nMsgs,
                   swCancelled, callHist, inHist>>

\* mutant: a call that gives up sending drains the response that is waiting
SendTimeout_Drains ==
    /\ spc = "send"
    /\ ret' = ErrSendTimeout
    /\ spc' = "done"
    /\ IF ipc = "forward"
       THEN /\ ipc' = "select"
            /\ irep' = None
            /\ iraw' = None
            /\ irawOf' = 0
       ELSE UNCHANGED <<ipc, irep, iraw, irawOf>>
    /\ UNCHANGED <<port, iter, rx, nCalls, opc, opay, wsOut, nMsgs, swCancelled,
                   callHist, outHist, nReplied>>

\* lines 61-62: the send timer fires
SendTimeout ==
    /\ spc = "send"
    /\ ret' = ErrSendTimeout
    /\ spc' = "done"
    /\ UNCHANGED <<port, iter, rx, nCalls, opc, opay, wsOut, ipc, irep, nMsgs, swCancelled,
                   callHist, outHist, inHist>>

\* lines 72-97: one response is received and handled
Consume(m) ==
    /\ rx' = Append(rx, m)
    /\ IF Classify(m, port) = "error"
       THEN /\ ret' = ErrDevice(m)
            /\ spc' = "done"
            /\ UNCHANGED iter
       ELSE IF Classify(m, port) = "match"
       THEN /\ ret' = Nil
            /\ spc' = "done"
            /\ UNCHANGED iter
       ELSE /\ iter' = iter + 1
            /\ IF iter + 1 < MaxTries
               THEN UNCHANGED <<ret, spc>>
               ELSE /\ ret' = ErrTooMany
                    /\ spc' = "done"

\* line 72: response := <-s.Response, sent by PipeWsToInterface (line 148)
RecvFromPipe ==
    /\ spc = "recv"
    /\ ipc = "forward"
    /\ Consume(irep)
    /\ irep' = None
    /\ ipc' = "select"
    /\ matchOf' = IF Classify(irep, port) = "match" THEN irawOf ELSE matchOf
    /\ iraw' = None
    /\ irawOf' = 0
    /\ UNCHANGED <<port, nCalls, opc, opay, wsOut, nMsgs, swCancelled,
                   nSent, myCmd, nBlank, outHist, nReplied>>

\* line 72: response := <-s.Response, a value that is not a Report written
\* to the exported Response channel
RecvBlank ==
    /\ spc = "recv"
    /\ nBlank < MaxBlanks
    /\ nBlank' = nBlank + 1
    /\ Consume(Blank)
    /\ UNCHANGED <<port, nCalls, opc, opay, wsOut, ipc, irep, nMsgs, swCancelled,
                   nSent, myCmd, matchOf, outHist, inHist>>

\* mutant: a receive cycle that times out is counted, and the loop goes on
RecvTimeout_Continues ==
    /\ spc = "recv"
    /\ iter' = iter + 1
    /\ IF iter + 1 < MaxTries
       THEN UNCHANGED <<ret, spc>>
       ELSE /\ ret' = ErrRecvTimeout
            /\ spc' = "done"
    /\ UNCHANGED <<port, rx, nCalls, opc, opay, wsOut, ipc, irep, nMsgs, swCancelled,
                   callHist, outHist, inHist>>

\* lines 70-71: the receive timer fires
RecvTimeout ==
    /\ spc = "recv"
    /\ ret' = ErrRecvTimeout
    /\ spc' = "done"
    /\ UNCHANGED <<port, iter, rx, nCalls, opc, opay, wsOut, ipc, irep, nMsgs, swCancelled,
                   callHist, outHist, inHist>>

(* ------------------------- the transport pipes ------------------------- *)

\* line 122: out <- reconws.WsMessage{...}, taken by the transport
PipeOutForward ==
    /\ opc = "forward"
    /\ wsOut' = Append(wsOut, opay)
    /\ opay' = None
    /\ opc' = "select"
    /\ UNCHANGED <<spc, port, iter, ret, rx, nCalls, ipc, irep, nMsgs, swCancelled,
                   callHist, outHist, inHist>>

\* lines 112-113: PipeInterfaceToWs returns
PipeOutDone ==
    /\ opc = "select"
    /\ swCancelled
    /\ opc' = "done"
    /\ UNCHANGED <<spc, port, iter, ret, rx, nCalls, opay, wsOut, ipc, irep, nMsgs, swCancelled,
                   callHist, outHist, inHist>>

\* the frame is a command of SetPort
CmdFrame(f) == \E p \in Ports : f = Marshal(Command(p))

\* the first frame the switch has not answered yet that is a command
NextCmd ==
    { k \in (nReplied + 1)..Len(wsOut) :
        /\ CmdFrame(wsOut[k])
        /\ \A j \in (nReplied + 1)..(k - 1) : ~CmdFrame(wsOut[j]) }

\* the messages that arrive on r.In without a command behind them
\* (origin 0): any text
Unsolicited ==
    { [raw |-> r, of |-> 0, upto |-> nReplied] : r \in RawMsgs }

\* the report of the switch for the next command k it has not answered yet
\* (origin k), telling the port that command set
Replies ==
    { [raw |-> [json |-> TRUE, report |-> "port", is |-> a[2]], of |-> a[1], upto |-> a[1]] :
        a \in { b \in NextCmd \X Ports : wsOut[b[1]] = Marshal(Command(b[2])) } }

\* mutant: a message that does not parse is dropped
PipeInTake_Drops(arrivals) ==
    /\ ipc = "select"
    /\ nMsgs < MaxMsgs
    /\ nMsgs' = nMsgs + 1
    /\ \E a \in arrivals :
        /\ nReplied' = a.upto
        /\ IF a.raw.json
           THEN /\ iraw' = a.raw
                /\ irawOf' = a.of
                /\ irep' = Unmarshal(a.raw)
                /\ ipc' = "forward"
           ELSE UNCHANGED <<iraw, irawOf, irep, ipc>>
    /\ UNCHANGED <<spc, port, iter, ret, rx, nCalls, opc, opay, wsOut, swCancelled,
                   callHist, outHist>>

\* lines 138-142: msg := <-in; json.Unmarshal(msg.Data, &r)
PipeInTake(arrivals) ==
    /\ ipc = "select"
    /\ nMsgs < MaxMsgs
    /\ nMsgs' = nMsgs + 1
    /\ \E a \in arrivals :
        /\ iraw' = a.raw
        /\ irawOf' = a.of
        /\ nReplied' = a.upto
        /\ irep' = Unmarshal(a.raw)
    /\ ipc' = "forward"
    /\ UNCHANGED <<spc, port, iter, ret, rx, nCalls, opc, opay, wsOut, swCancelled,
                   callHist, outHist>>

\* PipeWsToInterface receives a message the switch sent unasked
PipeInReceive == PipeInTake(Unsolicited)

\* PipeWsToInterface receives the report of the switch for a command
PipeInReply == PipeInTake(Replies)

\* lines 135-136: PipeWsToInterface returns
PipeInDone ==
    /\ ipc = "select"
    /\ swCancelled
    /\ ipc' = "done"
    /\ UNCHANGED <<spc, port, iter, ret, rx, nCalls, opc, opay, wsOut, irep, nMsgs, swCancelled,
                   callHist, outHist, inHist>>

\* the context given to rfswitch.New is cancelled
SwCancel ==
    /\ ~swCancelled
    /\ swCancelled' = TRUE
    /\ UNCHANGED <<spc, port, iter, ret, rx, nCalls, opc, opay, wsOut, ipc, irep, nMsgs,
                   callHist, outHist, inHist>>

SwitchNext ==
    \/ Call /\ UNCHANGED <<vnaVars, fnVars>>
    \/ SendRequest /\ UNCHANGED <<vnaVars, fnVars>>
    \/ SendTimeout /\ UNCHANGED <<vnaVars, fnVars>>
    \/ RecvFromPipe /\ UNCHANGED <<vnaVars, fnVars>>
    \/ RecvBlank /\ UNCHANGED <<vnaVars, fnVars>>
    \/ RecvTimeout /\ UNCHANGED <<vnaVars, fnVars>>
    \/ PipeOutForward /\ UNCHANGED <<vnaVars, fnVars>>
    \/ PipeOutDone /\ UNCHANGED <<vnaVars, fnVars>>
    \/ PipeInReceive /\ UNCHANGED <<vnaVars, fnVars>>
    \/ PipeInDone /\ UNCHANGED <<vnaVars, fnVars>>
    \/ SwCancel /\ UNCHANGED <<vnaVars, fnVars>>

SwitchSpec == Init /\ [][SwitchNext]_vars

\* PipeInterfaceToWs with every writer of the exported Request channel:
\* SetPort, and a writer of values that do not serialize
OutPipeNext ==
    \/ Call /\ UNCHANGED <<vnaVars, fnVars>>
    \/ SendRequest /\ UNCHANGED <<vnaVars, fnVars>>
    \/ RequestOther /\ UNCHANGED <<vnaVars, fnVars>>
    \/ SendTimeout /\ UNCHANGED <<vnaVars, fnVars>>
    \/ RecvTimeout /\ UNCHANGED <<vnaVars, fnVars>>
    \/ PipeOutForward /\ UNCHANGED <<vnaVars, fnVars>>
    \/ PipeOutDone /\ UNCHANGED <<vnaVars, fnVars>>
    \/ SwCancel /\ UNCHANGED <<vnaVars, fnVars>>

OutPipeSpec == Init /\ [][OutPipeNext]_vars

\* SetPort and the pipes with a switch that answers the commands it gets
ReplyNext ==
    \/ Call /\ UNCHANGED <<vnaVars, fnVars>>
    \/ SendRequest /\ UNCHANGED <<vnaVars, fnVars>>
    \/ SendTimeout /\ UNCHANGED <<vnaVars, fnVars>>
    \/ RecvFromPipe /\ UNCHANGED <<vnaVars, fnVars>>
    \/ RecvBlank /\ UNCHANGED <<vnaVars, fnVars>>
    \/ RecvTimeout /\ UNCHANGED <<vnaVars, fnVars>>
    \/ PipeOutForward /\ UNCHANGED <<vnaVars, fnVars>>
    \/ PipeOutDone /\ UNCHANGED <<vnaVars, fnVars>>
    \/ PipeInReceive /\ UNCHANGED <<vnaVars, fnVars>>
    \/ PipeInReply /\ UNCHANGED <<vnaVars, fnVars>>
    \/ PipeInDone /\ UNCHANGED <<vnaVars, fnVars>>
    \/ SwCancel /\ UNCHANGED <<vnaVars, fnVars>>

ReplySpec == Init /\ [][ReplyNext]_vars

(* ------------------------- decode, called on its own ------------------- *)

\* a message table of n entries: the entries of Results, then further ones
Table(n) ==
    [i \in 1..n |-> IF i <= Len(Results) THEN Results[i] ELSE "Status " \o ToString(i - 1)]

\* the status codes decode is called with: every index of the table, the
\* first code past its end, and the sentinel
CodesFor(table) == 0..Len(table) \cup {255}

DecodeInit ==
    /\ InitVNA
    /\ InitSwitch
    /\ dTable \in { Table(n) : n \in 1..MaxTable }
    /\ dCode = NoCode
    /\ dOut = "none"
    /\ lStart = 0
    /\ lEnd = 0
    /\ lSize = 0
    /\ lOut = <<>>

\* decode(result)
DecodeCall ==
    /\ \E c \in CodesFor(dTable) :
        /\ dCode' = c
        /\ dOut' = decodeWith(dTable, c)
    /\ UNCHANGED <<dTable, lStart, lEnd, lSize, lOut>>

DecodeNext == DecodeCall /\ UNCHANGED <<vnaVars, swVars>>

DecodeSpec == DecodeInit /\ [][DecodeNext]_vars

(* ---------------------- LinFrequency, called on its own ---------------- *)

\* mutant: the step is the range divided by the number of points
LinPoint_BySize(s, e, size, i) == s + (i * (e - s)) \div size

\* lines 452-453: f := s + float64(i)*(e-s)/(float64(size)-1); uint64(f).
\* The product is formed first.  The frequencies are integers far below
\* 2^53 / 512, so the float64 product is exact, the quotient and the sum
\* are off by less than 2^-10 while a quotient that is not a whole number
\* is at least 1/511 away from one: the conversion to uint64 yields the
\* whole part of the exact value; \div is that whole part.
LinPoint(s, e, size, i) == s + (i * (e - s)) \div (size - 1)

\* lines 451-454: the loop, appending one point for every i < size
RECURSIVE LinLoop(_, _, _, _, _)
LinLoop(s, e, size, i, ff) ==
    IF i < size
    THEN LinLoop(s, e, size, i + 1, Append(ff, LinPoint(s, e, size, i)))
    ELSE ff

\* lines 446-457
LinFrequency(start, end, size) == LinLoop(start, end, size, 0, <<>>)

\* the calls made: every range up to MaxFreq with 2..MaxPoints points,
\* and the call of the firmware documentation
LinInputs ==
    { in \in (0..MaxFreq) \X (0..MaxFreq) \X (2..MaxPoints) : in[1] <= in[2] }
    \cup { <<0, 1000, 5>> }

LinInit ==
    /\ InitVNA
    /\ InitSwitch
    /\ dTable = Results
    /\ dCode = NoCode
    /\ dOut = "none"
    /\ \E in \in LinInputs :
        /\ lStart = in[1]
        /\ lEnd = in[2]
        /\ lSize = in[3]
    /\ lOut = <<>>

\* ff = LinFrequency(start, end, size)
LinCall ==
    /\ lOut = <<>>
    /\ lOut' = LinFrequency(lStart, lEnd, lSize)
    /\ UNCHANGED <<dTable, dCode, dOut, lStart, lEnd, lSize>>

LinNext == LinCall /\ UNCHANGED <<vnaVars, swVars>>

LinSpec == LinInit /\ [][LinNext]_vars

(* ------------------------- Device Actor: claims ------------------------ *)

\* the results of commands written so far (lifecycle errors carry of = 0)
CmdResults == SelectSeq(emitted, LAMBDA e : e.of # 0)

\* every taken command has had its result written
AllAnswered == Len(CmdResults) = Len(taken)

InFlight == vpc \in {"handle", "emit"}

Stopped == vpc \in {"disconnect", "disconnectErr", "done"}

\* C1: after a successful connect the actor takes the commands in submission
\* order, one at a time, and writes one result per taken command before it
\* takes the next: the k-th value on the response channel is the result of
\* the k-th submitted command (no reordering, loss or duplication); the
\* reader sees the values in the order written.
C1_InOrder ==
    ~connectFailed =>
        /\ Len(taken) <= Len(submitted)
        /\ \A k \in 1..Len(taken) : taken[k] = submitted[k]
        /\ Len(CmdResults) = IF InFlight THEN Len(taken) - 1 ELSE Len(taken)
        /\ \A k \in 1..Len(CmdResults) :
            /\ emitted[k].of = k
            /\ \E code \in HwCodes : emitted[k].res = HandleCommand(submitted[k], code)
        /\ Len(emitted) <= Len(CmdResults) + 1
        /\ result = [i \in 1..(Len(emitted) - nRead) |-> emitted[nRead + i].res]

C1_Witness ==
    /\ ~connectFailed
    /\ Len(CmdResults) = 3
    /\ nRead >= 2
    /\ \E j, k \in 1..3 : submitted[j].type # submitted[k].type

\* C2: when the one connect attempt fails the actor writes exactly one
\* ErrorResult and terminates: no second connect, no command taken, no
\* hardware query, no disconnect; the write of the ErrorResult cannot block.
C2_ConnectFailure ==
    connectFailed =>
        /\ nConnect = 1
        /\ handle = "nil"
        /\ vpc \in {"connectErr", "done"}
        /\ taken = <<>>
        /\ nHw = 0
        /\ nDisconnect = 0
        /\ vpc = "connectErr" => (emitted = <<>> /\ CanSendResult)
        /\ vpc = "done" =>
            /\ Len(emitted) = 1
            /\ emitted[1].res.type = "CustomResult"
            /\ emitted[1].res.Message # Nil

C2_Witness ==
    /\ connectFailed
    /\ vpc = "done"
    /\ cancelled
    /\ Len(submitted) >= 2
    /\ nRead = 1

\* C3: disconnect is triggered only by cancellation: never before the
\* cancellation signal, never while a command is being processed, and at
\* most once in a run.
C3_DisconnectOnlyOnCancel ==
    /\ nDisconnect <= 1
    /\ nDisconnect >= 1 => (cancelled /\ cur = None /\ vpc \in {"disconnectErr", "done"})
    /\ vpc = "disconnect" => (cancelled /\ cur = None /\ nDisconnect = 0)
    /\ InFlight => nDisconnect = 0

C3_Witness ==
    /\ nDisconnect = 1
    /\ Len(CmdResults) >= 2
    /\ vpc = "done"

\* C4: when cancellation is signalled while the actor is idle (parked in its
\* select, no command in flight) the actor goes on to disconnect, disconnects
\* once, and takes no further command: a command submitted afterwards stays
\* in the request channel, is never dispatched and produces no result.
C4_IdleCancel ==
    /\ [](cancelPc = "idle" =>
            /\ Stopped
            /\ nDisconnect = (IF vpc = "disconnect" THEN 0 ELSE 1)
            /\ cur = None
            /\ AllAnswered
            /\ Len(taken) + Len(command) = Len(submitted))
    /\ [][cancelPc' = "idle" =>
            IF cancelPc = "idle"
            THEN taken' = taken /\ CmdResults' = CmdResults /\ nHw' = nHw
            ELSE vpc = "parked" /\ vpc' = "disconnect"]_vars

C4_Witness ==
    /\ cancelPc = "idle"
    /\ vpc = "done"
    /\ nDisconnect = 1
    /\ Len(command) = 2
    /\ blocked # None

\* C5: once cancellation is raised for a connected actor, writing a result or
\* the disconnect-failure ErrorResult never holds the actor up: the actor is
\* never blocked on the response channel, so it reaches Terminated also when
\* no reader takes from the response channel.
C5_NeverBlockedOnResult ==
    (cancelled /\ ~connectFailed /\ vpc \in {"emit", "disconnectErr"}) => CanSendResult

\* C6: cancellation is observed only between commands: from taking a command
\* to writing its result the actor does nothing else, so at the moment it
\* turns to disconnect every taken command has its result written.
C6_NotPreempted ==
    /\ InFlight => nDisconnect = 0
    /\ vpc = "handle" => (cur = taken[Len(taken)] /\ res = None)
    /\ vpc = "emit" => \E code \in HwCodes : res = HandleCommand(taken[Len(taken)], code)
    /\ (Stopped /\ ~connectFailed) =>
        /\ AllAnswered
        /\ \A k \in 1..Len(taken) : emitted[k].of = k

C6_Witness ==
    /\ cancelPc = "busy"
    /\ nDisconnect = 1
    /\ Len(taken) >= 2

\* C7 (as amended): with request and response channels of capacity 2, a send
\* on the request channel blocks only when the channel already holds two
\* commands the actor has not taken: the second command issued while the
\* actor is processing the first is accepted at once; while the actor is
\* processing a command the first send that blocks is the fourth.
C7_Backpressure ==
    /\ blocked # None => (Len(command) = 2 /\ vpc # "parked")
    /\ (blocked # None /\ InFlight) => Len(submitted) >= 3
    /\ Len(command) <= 2
    /\ Len(result) <= 2

C7_Witness ==
    /\ blocked # None
    /\ vpc = "handle"
    /\ Len(taken) = 1
    /\ Len(submitted) = 3

\* C7 (as claimed): a caller that issues the second command while the actor
\* is processing the first blocks on the send: the request channel accepts no
\* second command while the first is in flight.
C7_SecondSendBlocks ==
    [][(InFlight /\ Len(taken) = 1 /\ Len(submitted) = 1) => submitted' = submitted]_vars

(* ----------------------------- SetPort: claims ------------------------ *)

Contains(str, sub) ==
    \E i \in 1..(Len(str) - Len(sub) + 1) : SubSeq(str, i, i + Len(sub) - 1) = sub

IsErrorReport(m) == m.type = "Report" /\ m.Report = "error"

IsMatch(m, p) == m = Report("port", p)

\* the first n responses of the call are neither an error report nor the match
Unexpected(n) ==
    /\ Len(rx) >= n
    /\ \A j \in 1..n : ~IsErrorReport(rx[j]) /\ ~IsMatch(rx[j], port)

\* C8: when the responses of a call SetPort(p) are k messages, 0 <= k <= 4,
\* that are neither an error report nor the report {"port", p}, followed by
\* the report {"port", p}, the call has discarded the k messages without an
\* error and has returned success, having consumed exactly k+1 responses;
\* and a call returns success in no other case.
C8_SuccessAfterStrays ==
    /\ \A k \in 0..4 :
        (Unexpected(k) /\ Len(rx) > k /\ IsMatch(rx[k + 1], port)) =>
            /\ spc = "done"
            /\ ret = Nil
            /\ Len(rx) = k + 1
            /\ iter = k
    /\ \A k \in 1..4 :
        (Unexpected(k) /\ Len(rx) = k) =>
            /\ iter = k
            /\ \/ spc = "recv" /\ ret = "none"
               \/ spc = "done" /\ ret = ErrRecvTimeout
    /\ (spc = "done" /\ ret = Nil) =>
        /\ Len(rx) \in 1..5
        /\ IsMatch(rx[Len(rx)], port)
        /\ Unexpected(Len(rx) - 1)

C8_Witness ==
    /\ spc = "done"
    /\ ret = Nil
    /\ Len(rx) = 5
    /\ \E a, b, c \in 1..4 :
        /\ rx[a] = Blank
        /\ rx[b] = ZeroReport
        /\ rx[c].type = "Report" /\ rx[c].Report = "port" /\ rx[c].Is # port

\* C9: when an error report is consumed as one of the first five responses,
\* before any report {"port", p}, the call fails at once with the error whose
\* message contains the payload of that report, and consumes nothing more.
C9_ErrorReportFails ==
    \A k \in 1..5 :
        (Unexpected(k - 1) /\ Len(rx) >= k /\ IsErrorReport(rx[k])) =>
            /\ spc = "done"
            /\ Len(rx) = k
            /\ ret = "Error" \o rx[k].Is
            /\ Contains(ret, rx[k].Is)
            /\ ret \notin {Nil, ErrTooMany, ErrSendTimeout, ErrRecvTimeout}

C9_Witness ==
    /\ spc = "done"
    /\ Len(rx) = 5
    /\ IsErrorReport(rx[5])
    /\ rx[5].Is = "bad state"
    /\ ipc = "forward"

\* C10: when five responses in a row are neither an error report nor the
\* report {"port", p}, the call fails with the error "Too many Unexpected
\* responses"; a call never consumes more than five responses, whatever is
\* waiting on the Response channel, and fails so in no other case.
C10_TooManyUnexpected ==
    /\ Len(rx) <= 5
    /\ iter <= 5
    /\ (Unexpected(5) /\ nCalls > 0) => (spc = "done" /\ ret = ErrTooMany)
    /\ ret = ErrTooMany => (spc = "done" /\ Len(rx) = 5 /\ Unexpected(5))

C10_Witness ==
    /\ spc = "done"
    /\ ret = ErrTooMany
    /\ ipc = "forward"
    /\ IsMatch(irep, port)

(* ------------------------ SetPort: frame and origin -------------------- *)

\* C11: a call whose command the Request channel does not accept before the
\* send timer fires fails with the error "timeout sending request"; the
\* command is not handed to PipeInterfaceToWs and the call consumes no
\* response: what waits on the Response side is left as it was.  While
\* PipeInterfaceToWs is not receiving, a call can leave the send only so.
C11_SendTimeoutFrame ==
    [][/\ (spc = "send" /\ spc' # "send" /\ opc # "select") => ret' = ErrSendTimeout
       /\ (ret' = ErrSendTimeout /\ ret # ErrSendTimeout) =>
            /\ spc = "send"
            /\ spc' = "done"
            /\ rx' = <<>>
            /\ nSent' = 0
            /\ UNCHANGED <<opc, opay, wsOut, nOutIn>>
            /\ UNCHANGED <<ipc, irep, iraw, nMsgs>>]_vars

C11_Witness ==
    /\ spc = "done"
    /\ ret = ErrSendTimeout
    /\ nCalls = 2
    /\ opc = "forward"
    /\ ipc = "forward"
    /\ IsMatch(irep, port)

\* C12 (as claimed): with one call in flight at a time, the report a
\* successful call SetPort(p) matched was produced by the switch in response
\* to the command of that very call: not to the command of an earlier call,
\* and not unsolicited.
C12_OwnReply ==
    (spc = "done" /\ ret = Nil) => (matchOf # 0 /\ matchOf = myCmd)

\* C12 (amended): the report a successful call SetPort(p) matched tells the
\* port p and was consumed after the call had sent its command; it is
\* unsolicited, or the report of the switch for a command that sets the port
\* p, sent by this call or by an earlier one.
C12_SomeReplyForPort ==
    (spc = "done" /\ ret = Nil) =>
        /\ nSent = 1
        /\ myCmd >= 1
        /\ IsMatch(rx[Len(rx)], port)
        /\ matchOf \in 0..myCmd
        /\ matchOf >= 1 =>
            /\ matchOf <= Len(wsOut)
            /\ wsOut[matchOf] = Marshal(Command(port))

\* the second call matched the report for the command of the first call,
\* which had timed out
C12_Witness ==
    /\ spc = "done"
    /\ ret = Nil
    /\ nCalls = 2
    /\ myCmd = 2
    /\ matchOf = 1
    /\ Len(rx) = 1

(* ------------------------ the dispatcher: claims ----------------------- *)

\* the number of commands of a known type among the first n taken
RECURSIVE KnownAmong(_)
KnownAmong(n) ==
    IF n = 0 THEN 0
    ELSE KnownAmong(n - 1) + (IF taken[n].type \in KnownTypes THEN 1 ELSE 0)

\* C13: for a command that is none of the three known types the dispatcher
\* returns one ErrorResult with the message "Unknown Command" that carries
\* the command, makes no hardware query and does not crash: the actor goes
\* on, and the next command gets the result of its own type.
C13_UnknownCommand ==
    /\ Alive
    /\ (vpc = "emit" /\ cur.type = "Other") => res = CustomResult("Unknown Command", cur)
    /\ nHw = KnownAmong(IF vpc = "handle" THEN Len(taken) - 1 ELSE Len(taken))
    /\ \A k \in 1..Len(CmdResults) :
        submitted[k].type = "Other" =>
            /\ CmdResults[k].res = CustomResult("Unknown Command", submitted[k])
            /\ CmdResults[k].of = k
            /\ k < Len(CmdResults) =>
                \E code \in HwCodes :
                    CmdResults[k + 1].res = HandleCommand(submitted[k + 1], code)

C13_Witness ==
    /\ Len(CmdResults) = 2
    /\ submitted[1].type = "Other"
    /\ CmdResults[1].res.Message = "Unknown Command"
    /\ CmdResults[2].res.type = "SingleQuery"
    /\ nHw = 1
    /\ vpc = "parked"

\* the point count is outside 2..512
OutOfRange(cmd) == cmd.type = "RangeQuery" /\ (cmd.Size < 2 \/ cmd.Size > BufCap)

\* C14 (as claimed): a RangeQuery whose point count is below 2 or above the
\* capacity 512 of the result buffers is answered with an ErrorResult; the
\* buffers are not overrun and the actor does not crash.
C14_RejectsBadPointCount ==
    /\ Alive
    /\ \A k \in 1..Len(CmdResults) :
        OutOfRange(submitted[k]) => CmdResults[k].res.type = "CustomResult"

(* ----------------------- the transport pipes: claims ------------------- *)

\* C15 (as claimed): PipeInterfaceToWs drops a value whose serialization
\* fails, forwarding nothing for it, and goes on with the next value; every
\* value that serializes is forwarded once, as a text frame.
C15_DropsUnserializable ==
    /\ Len(wsOut) <= nOutIn - nBadIn
    /\ opc # "forward" => Len(wsOut) = nOutIn - nBadIn
    /\ \A k \in 1..Len(wsOut) :
        wsOut[k].Data # NoPayload /\ wsOut[k].Type = "TextMessage"

\* C16 (as claimed): once the context is cancelled each of the two pipes
\* terminates, in whatever state it is: a pipe that has not returned can
\* return, also while it holds a message that nobody is receiving on its
\* downstream channel.
C16_PipesExitOnCancel ==
    swCancelled =>
        /\ opc = "done" \/ ENABLED PipeOutDone \/ ENABLED PipeOutForward
        /\ ipc = "done" \/ ENABLED PipeInDone \/ ENABLED RecvFromPipe

C20_BoundedCall ==
    /\ nSent <= 1
    /\ Len(rx) <= 5
    /\ spc = "send" => (nSent = 0 /\ rx = <<>> /\ ENABLED SendTimeout)
    /\ spc = "recv" =>
        /\ nSent = 1
        /\ iter = Len(rx)
        /\ iter < 5
        /\ ret = "none"
        /\ ENABLED RecvTimeout
    /\ spc = "done" => ret # "none"
    /\ ret = ErrRecvTimeout =>
        /\ spc = "done"
        /\ nSent = 1
        /\ iter = Len(rx)
        /\ Len(rx) <= 4
        /\ Unexpected(Len(rx))

C20_Witness ==
    /\ spc = "done"
    /\ ret = ErrRecvTimeout
    /\ Len(rx) = 2
    /\ nSent = 1
    /\ ipc = "forward"
    /\ IsMatch(irep, port)

(* ------------------------------ decode: claims ------------------------ *)

\* C17: decode returns success (no error) for the code 0; for the sentinel
\* 255 the error with the last message of the table, whatever the length of
\* the table; and for a code between 0 and the length of the table the
\* error with the message at that index (counted from 0).
C17_Decode ==
    dCode # NoCode =>
        /\ dCode = 0 => dOut = Nil
        /\ dCode = 255 => dOut = dTable[Len(dTable)]
        /\ (0 < dCode /\ dCode < Len(dTable)) => dOut = dTable[dCode + 1]
        /\ dCode # 0 => dOut # Nil

C17_Witness ==
    /\ dCode = 255
    /\ Len(dTable) = 7
    /\ dOut = "Status 6"

(* --------------------------- LinFrequency: claims ---------------------- *)

====
